---- MODULE Spec2Model ----
(***************************************************************************)
(* Model of the rule-evaluation engine of ui-manual-validator:             *)
(* src/src/validators/element_validator.py (ElementValidator).             *)
(*                                                                         *)
(* Python strings are sequences of one-character strings, so that lower(), *)
(* strip(), startswith() and the substring test are computed.  A Python    *)
(* value is a record tagged with its type (field t); a dict is the         *)
(* sequence of its <<key, value>> pairs in insertion order.  A rule that   *)
(* raises is a rule whose outcome has fault = TRUE.                        *)
(***************************************************************************)
EXTENDS Integers, Sequences, FiniteSets, TLC

----------------------------------------------------------------------------
(* Python values *)

Val(type, str, num, items, bool) ==
    [t |-> type, s |-> str, n |-> num, d |-> items, b |-> bool]

PyNone == Val("none", <<>>, 0, <<>>, FALSE)
PyStr(s) == Val("str", s, 0, <<>>, FALSE)
PyInt(n) == Val("int", <<>>, n, <<>>, FALSE)
PyBool(b) == Val("bool", <<>>, 0, <<>>, b)
PyDict(d) == Val("dict", <<>>, 0, d, FALSE)
PyList(d) == Val("list", <<>>, 0, d, FALSE)

----------------------------------------------------------------------------
(* Python str methods *)

UpperAlpha == <<"A","B","C","D","E","F","G","H","I","J","K","L","M",
                "N","O","P","Q","R","S","T","U","V","W","X","Y","Z">>
LowerAlpha == <<"a","b","c","d","e","f","g","h","i","j","k","l","m",
                "n","o","p","q","r","s","t","u","v","w","x","y","z">>

LowerChar(c) ==
    IF \E i \in 1..Len(UpperAlpha) : UpperAlpha[i] = c
    THEN LowerAlpha[CHOOSE i \in 1..Len(UpperAlpha) : UpperAlpha[i] = c]
    ELSE c

\* str.lower()
\* faulty variant: the text is compared as written
Lower_AsWritten(s) == s

Lower(s) == [i \in 1..Len(s) |-> LowerChar(s[i])]

Whitespace == {" ", "\n", "\t"}

\* str.lstrip() and str.rstrip(): drop leading, trailing whitespace
RECURSIVE LStrip(_)
LStrip(s) ==
    IF s # <<>> /\ Head(s) \in Whitespace THEN LStrip(Tail(s)) ELSE s

RECURSIVE RStrip(_)
RStrip(s) ==
    IF s # <<>> /\ s[Len(s)] \in Whitespace
    THEN RStrip(SubSeq(s, 1, Len(s) - 1))
    ELSE s

\* str.strip()
Strip(s) == RStrip(LStrip(s))

\* str.startswith(p)
StartsWith(s, p) == Len(s) >= Len(p) /\ SubSeq(s, 1, Len(p)) = p

\* p in s, for two strings
IsSubstr(p, s) ==
    \E i \in 0..(Len(s) - Len(p)) : SubSeq(s, i + 1, i + Len(p)) = p

----------------------------------------------------------------------------
(* Python dict and container operations, on values *)

\* k in c: TypeError unless c is a container
InFaults(c) == c.t \notin {"dict", "list", "str"}

In(k, c) ==
    CASE c.t = "dict" -> \E i \in 1..Len(c.d) : c.d[i][1] = k
      [] c.t = "list" -> \E i \in 1..Len(c.d) : c.d[i] = PyStr(k)
      [] c.t = "str"  -> IsSubstr(k, c.s)
      [] OTHER        -> FALSE

\* c.get(k, default): AttributeError unless c is a dict
GetFaults(c) == c.t # "dict"

Get(c, k, default) ==
    IF c.t = "dict" /\ In(k, c)
    THEN c.d[CHOOSE i \in 1..Len(c.d) : c.d[i][1] = k][2]
    ELSE default

\* c[k], evaluated only where k in c holds: TypeError unless c is a dict
SubscriptFaults(c) == c.t # "dict"

\* bool(v)
Truthy(v) ==
    CASE v.t = "bool" -> v.b
      [] v.t = "int"  -> v.n # 0
      [] v.t = "str"  -> v.s # <<>>
      [] v.t \in {"dict", "list"} -> v.d # <<>>
      [] OTHER        -> FALSE

----------------------------------------------------------------------------
(* The string literals of element_validator.py *)

S_tag_name == <<"t","a","g","_","n","a","m","e">>
S_attributes == <<"a","t","t","r","i","b","u","t","e","s">>
S_text_content == <<"t","e","x","t","_","c","o","n","t","e","n","t">>
S_css_selector == <<"c","s","s","_","s","e","l","e","c","t","o","r">>
S_bounding_rect == <<"b","o","u","n","d","i","n","g","_","r","e","c","t">>
S_is_visible == <<"i","s","_","v","i","s","i","b","l","e">>
S_unknown == <<"u","n","k","n","o","w","n">>
S_img == <<"i","m","g">>
S_input == <<"i","n","p","u","t">>
S_button == <<"b","u","t","t","o","n">>
S_a == <<"a">>
S_select == <<"s","e","l","e","c","t">>
S_textarea == <<"t","e","x","t","a","r","e","a">>
S_h1 == <<"h","1">>
S_alt == <<"a","l","t">>
S_type == <<"t","y","p","e">>
S_id == <<"i","d">>
S_class == <<"c","l","a","s","s">>
S_aria_label == <<"a","r","i","a","-","l","a","b","e","l">>
S_title == <<"t","i","t","l","e">>
S_required == <<"r","e","q","u","i","r","e","d">>
S_aria_required == <<"a","r","i","a","-","r","e","q","u","i","r","e","d">>
S_pattern == <<"p","a","t","t","e","r","n">>
S_href == <<"h","r","e","f">>
S_target == <<"t","a","r","g","e","t">>
S_rel == <<"r","e","l">>
S_loading == <<"l","o","a","d","i","n","g">>
S_width == <<"w","i","d","t","h">>
S_height == <<"h","e","i","g","h","t">>
S_style == <<"s","t","y","l","e">>
S_x == <<"x">>
S_y == <<"y">>
S_submit == <<"s","u","b","m","i","t">>
S_hidden == <<"h","i","d","d","e","n">>
S_email == <<"e","m","a","i","l">>
S_text == <<"t","e","x","t">>
S_blank == <<"_","b","l","a","n","k">>
S_http == <<"h","t","t","p">>
S_noopener == <<"n","o","o","p","e","n","e","r">>
S_aria_prefix == <<"a","r","i","a","-">>

----------------------------------------------------------------------------
(* Evaluation of a Python condition: "T", "F", or "X" when it raises.      *)
(* `and` and `or` evaluate their right operand only when the left one does *)
(* not decide.                                                             *)

B3(b) == IF b THEN "T" ELSE "F"

\* a test that raises when faults holds
Try(faults, b) == IF faults THEN "X" ELSE B3(b)

And3(a, b) == IF a = "T" THEN b ELSE a

Or3(a, b) == IF a = "F" THEN b ELSE a

Not3(a) == IF a = "X" THEN "X" ELSE B3(a = "F")

\* v.strip(), v.lower(), v.startswith(): AttributeError unless v is a str
StrMethodFaults(v) == v.t # "str"

\* v < n: TypeError unless v is a number
LessFaults(v) == v.t \notin {"int", "bool"}

NumOf(v) == IF v.t = "bool" THEN (IF v.b THEN 1 ELSE 0) ELSE v.n

\* k in c / k not in c
In3(k, c) == Try(InFaults(c), In(k, c))

NotIn3(k, c) == Not3(In3(k, c))

\* c[k].strip() is blank, evaluated after k in c
BlankItem3(c, k) ==
    Try(SubscriptFaults(c) \/ StrMethodFaults(Get(c, k, PyNone)),
        Strip(Get(c, k, PyNone).s) = <<>>)

----------------------------------------------------------------------------
(* Issues and rule outcomes *)

ValidationSeverity == {"critical", "high", "medium", "low", "info"}

ValidationCategory ==
    {"accessibility", "functionality", "visual", "performance", "usability",
     "compliance"}

\* message: its fixed text and the values formatted into it
ValidationIssue(selector, type, sev, cat, text, args) ==
    [element_selector |-> selector, issue_type |-> type, severity |-> sev,
     category |-> cat, message |-> [text |-> text, args |-> args]]

NoIssue == ValidationIssue(PyNone, "", "info", "accessibility", "", <<>>)

\* a statement `if cond: issues.append(issue)`
Stmt(cond, issue) == [cond |-> cond, issue |-> issue]

\* a statement that appends nothing and raises when faults holds
Eval(faults) == Stmt(Try(faults, FALSE), NoIssue)

\* faulty variant: a rule returns after the first issue it finds
Emitted_FirstOnly(stmts) ==
    LET hits == SelectSeq(stmts, LAMBDA st : st.cond = "T")
    IN  IF hits = <<>> THEN <<>> ELSE <<hits[1].issue>>

RECURSIVE Emitted(_)
Emitted(stmts) ==
    IF stmts = <<>> THEN <<>>
    ELSE (IF Head(stmts).cond = "T" THEN <<Head(stmts).issue>> ELSE <<>>)
         \o Emitted(Tail(stmts))

\* the rule returns its issues, or raises and returns none
RuleOutcome(stmts) ==
    IF \E i \in 1..Len(stmts) : stmts[i].cond = "X"
    THEN [fault |-> TRUE, issues |-> <<>>]
    ELSE [fault |-> FALSE, issues |-> Emitted(stmts)]

----------------------------------------------------------------------------
(* Fields of the element record, read with dict.get and a default *)

\* faulty variant: element_info.get('tag_name') without its default
TagValue_NoDefault(e) == Get(e, S_tag_name, PyNone)

TagValue(e) == Get(e, S_tag_name, PyStr(<<>>))

\* element_info.get('tag_name', '').lower()
TagFaults(e) == StrMethodFaults(TagValue(e))

TagName(e) == Lower(TagValue(e).s)

Attributes(e) == Get(e, S_attributes, PyDict(<<>>))

Selector(e) == Get(e, S_css_selector, PyStr(S_unknown))

TextValue(e) == Get(e, S_text_content, PyStr(<<>>))

\* element_info.get('text_content', '').strip()
TextFaults(e) == StrMethodFaults(TextValue(e))

StrippedText(e) == Strip(TextValue(e).s)

BoundingRect(e) == Get(e, S_bounding_rect, PyDict(<<>>))

\* faulty variant: the size is read from the attributes
Coord_FromAttributes(e, k) == Get(Attributes(e), k, PyInt(0))

\* bounding_rect.get(k, 0)
Coord(e, k) == Get(BoundingRect(e), k, PyInt(0))

\* v < n
Less3(v, n) == Try(LessFaults(v), NumOf(v) < n)

----------------------------------------------------------------------------
(* The rules: each maps an element record to a rule outcome *)

_check_accessibility_basic(e) ==
    LET tag == TagName(e)
        a == Attributes(e)
        sel == Selector(e)
        type == Get(a, S_type, PyNone)
        isButton ==
            Or3(B3(tag = S_button),
                And3(B3(tag = S_input),
                     Try(GetFaults(a), type = PyStr(S_button))))
    IN  RuleOutcome(<<
          Eval(TagFaults(e)),
          Stmt(And3(B3(tag = S_img),
                    Or3(NotIn3(S_alt, a), BlankItem3(a, S_alt))),
               ValidationIssue(sel, "missing_alt_text", "high",
                   "accessibility", "Image missing alt text", <<>>)),
          Stmt(And3(And3(B3(tag = S_input),
                         Try(GetFaults(a),
                             type \notin {PyStr(S_submit), PyStr(S_button),
                                          PyStr(S_hidden)})),
                    NotIn3(S_id, a)),
               ValidationIssue(sel, "missing_input_id", "medium",
                   "accessibility",
                   "Form input missing ID for label association", <<>>)),
          Stmt(And3(isButton,
                    And3(Try(TextFaults(e), StrippedText(e) = <<>>),
                         And3(NotIn3(S_aria_label, a), NotIn3(S_title, a)))),
               ValidationIssue(sel, "button_no_accessible_name", "high",
                   "accessibility", "Button has no accessible name", <<>>))
        >>)

Headings ==
    {S_h1, <<"h","2">>, <<"h","3">>, <<"h","4">>, <<"h","5">>, <<"h","6">>}

\* faulty variant: an empty ARIA attribute is given severity HIGH
AriaStmt_High(sel, item) ==
    Stmt(And3(B3(StartsWith(item[1], S_aria_prefix)),
              Try(StrMethodFaults(item[2]), Strip(item[2].s) = <<>>)),
         ValidationIssue(sel, "empty_aria_attribute", "high",
             "accessibility", "Empty ARIA attribute: ", <<PyStr(item[1])>>))

\* one pass of `for attr_name, attr_value in attributes.items()`
AriaStmt(sel, item) ==
    Stmt(And3(B3(StartsWith(item[1], S_aria_prefix)),
              Try(StrMethodFaults(item[2]), Strip(item[2].s) = <<>>)),
         ValidationIssue(sel, "empty_aria_attribute", "medium",
             "accessibility", "Empty ARIA attribute: ", <<PyStr(item[1])>>))

_check_accessibility_advanced(e) ==
    LET tag == TagName(e)
        a == Attributes(e)
        sel == Selector(e)
    IN  RuleOutcome(
          <<Eval(TagFaults(e)),
            Stmt(And3(B3(tag \in Headings),
                      Try(TextFaults(e), StrippedText(e) = <<>>)),
                 ValidationIssue(sel, "empty_heading", "medium",
                     "accessibility", "Heading element is empty", <<>>)),
            Eval(a.t # "dict")>>
          \o (IF a.t = "dict"
              THEN [i \in 1..Len(a.d) |-> AriaStmt(sel, a.d[i])]
              ELSE <<>>))

FormTags == {S_input, S_textarea, S_select}

_check_form_elements(e) ==
    LET tag == TagName(e)
        a == Attributes(e)
        sel == Selector(e)
        inForm == B3(tag \in FormTags)
    IN  RuleOutcome(<<
          Eval(TagFaults(e)),
          Stmt(And3(inForm,
                    And3(In3(S_required, a), NotIn3(S_aria_required, a))),
               ValidationIssue(sel, "missing_aria_required", "low",
                   "accessibility",
                   "Required field missing aria-required attribute", <<>>)),
          Stmt(And3(inForm,
                    And3(B3(tag = S_input),
                         And3(Try(GetFaults(a),
                                  Get(a, S_type, PyStr(S_text))
                                      = PyStr(S_email)),
                              NotIn3(S_pattern, a)))),
               ValidationIssue(sel, "email_input_no_validation", "low",
                   "functionality",
                   "Email input without pattern validation", <<>>))
        >>)

generic_texts ==
    {<<"c","l","i","c","k"," ","h","e","r","e">>,
     <<"r","e","a","d"," ","m","o","r","e">>,
     <<"m","o","r","e">>, <<"l","i","n","k">>, <<"h","e","r","e">>}

_check_links(e) ==
    LET tag == TagName(e)
        a == Attributes(e)
        sel == Selector(e)
        href == Get(a, S_href, PyStr(<<>>))
        \* tag_name == 'a', then attributes.get('href', '') and .strip()
        isLink == And3(B3(tag = S_a),
                       And3(Try(GetFaults(a), TRUE), Try(TextFaults(e), TRUE)))
    IN  RuleOutcome(<<
          Eval(TagFaults(e)),
          Stmt(And3(isLink,
                    And3(B3(StrippedText(e) = <<>>),
                         NotIn3(S_aria_label, a))),
               ValidationIssue(sel, "empty_link", "high", "accessibility",
                   "Link has no accessible text", <<>>)),
          Stmt(And3(isLink, B3(Lower(StrippedText(e)) \in generic_texts)),
               ValidationIssue(sel, "generic_link_text", "medium",
                   "usability", "Link uses generic text", <<>>)),
          Stmt(And3(isLink,
                And3(Try(StrMethodFaults(href), StartsWith(href.s, S_http)),
                 And3(In3(S_target, a),
                  And3(B3(Get(a, S_target, PyNone) = PyStr(S_blank)),
                       Or3(NotIn3(S_rel, a),
                           NotIn3(S_noopener, Get(a, S_rel, PyNone))))))),
               ValidationIssue(sel, "external_link_security", "medium",
                   "compliance",
                   "External link missing security attributes", <<>>))
        >>)

_check_images(e) ==
    LET tag == TagName(e)
        a == Attributes(e)
        sel == Selector(e)
    IN  RuleOutcome(<<
          Eval(TagFaults(e)),
          Stmt(And3(B3(tag = S_img), NotIn3(S_loading, a)),
               ValidationIssue(sel, "missing_loading_attribute", "low",
                   "performance", "Image missing loading attribute", <<>>)),
          Stmt(And3(B3(tag = S_img),
                    Or3(NotIn3(S_width, a), NotIn3(S_height, a))),
               ValidationIssue(sel, "missing_image_dimensions", "low",
                   "performance", "Image missing width/height attributes",
                   <<>>))
        >>)

interactive_tags == {S_button, S_a, S_input, S_select, S_textarea}

\* WCAG recommendation for touch targets
min_size == 44

_check_interactive_elements(e) ==
    LET tag == TagName(e)
        rect == BoundingRect(e)
        sel == Selector(e)
        width == Coord(e, S_width)
        height == Coord(e, S_height)
    IN  RuleOutcome(<<
          Eval(TagFaults(e)),
          Stmt(And3(B3(tag \in interactive_tags),
                    And3(Try(GetFaults(rect), TRUE),
                         Or3(Less3(width, min_size),
                             Less3(height, min_size)))),
               ValidationIssue(sel, "small_touch_target", "medium",
                   "usability", "Touch target too small",
                   <<width, height>>))
        >>)

\* len(v): TypeError unless v is sized
LenFaults(v) == v.t \notin {"str", "dict", "list"}

LenOf(v) == IF v.t = "str" THEN Len(v.s) ELSE Len(v.d)

LongTextLimit == 500

_check_text_content(e) ==
    LET text == TextValue(e)
        sel == Selector(e)
    IN  RuleOutcome(<<
          Stmt(And3(Try(LenFaults(text), LenOf(text) > LongTextLimit),
                    NotIn3(<<"\n">>, text)),
               ValidationIssue(sel, "long_text_no_breaks", "low",
                   "usability", "Very long text without line breaks", <<>>))
        >>)

ViewportEdge == -100

_check_visual_layout(e) ==
    LET rect == BoundingRect(e)
        sel == Selector(e)
        is_visible == Get(e, S_is_visible, PyBool(TRUE))
    IN  RuleOutcome(<<
          Eval(GetFaults(rect)),
          Stmt(And3(B3(Truthy(is_visible)),
                    Or3(Less3(Coord(e, S_x), ViewportEdge),
                        Less3(Coord(e, S_y), ViewportEdge))),
               ValidationIssue(sel, "element_outside_viewport", "low",
                   "visual", "Element positioned outside typical viewport",
                   <<>>))
        >>)

\* faulty variant: inline_styles is given a category outside the enumeration
_check_performance_indicators_FreeCategory(e) ==
    LET a == Attributes(e)
        sel == Selector(e)
    IN  RuleOutcome(<<
          Eval(TagFaults(e)),
          Stmt(And3(In3(S_style, a), Not3(BlankItem3(a, S_style))),
               ValidationIssue(sel, "inline_styles", "low", "style",
                   "Element uses inline styles", <<>>))
        >>)

_check_performance_indicators(e) ==
    LET a == Attributes(e)
        sel == Selector(e)
    IN  RuleOutcome(<<
          Eval(TagFaults(e)),
          Stmt(And3(In3(S_style, a), Not3(BlankItem3(a, S_style))),
               ValidationIssue(sel, "inline_styles", "low", "performance",
                   "Element uses inline styles", <<>>))
        >>)

\* faulty variant: the performance rule is registered first
_load_validation_rules_PerformanceFirst ==
    <<"performance", "accessibility_basic", "accessibility_advanced",
      "form_validation", "link_validation", "image_validation",
      "interactive_elements", "text_content", "visual_layout">>

\* the registry built by _load_validation_rules: its keys, in insertion order
_load_validation_rules ==
    <<"accessibility_basic", "accessibility_advanced", "form_validation",
      "link_validation", "image_validation", "interactive_elements",
      "text_content", "visual_layout", "performance">>

\* self.validation_rules[check_name](element_info)
RunRule(check_name, e) ==
    CASE check_name = "accessibility_basic" -> _check_accessibility_basic(e)
      [] check_name = "accessibility_advanced" ->
             _check_accessibility_advanced(e)
      [] check_name = "form_validation" -> _check_form_elements(e)
      [] check_name = "link_validation" -> _check_links(e)
      [] check_name = "image_validation" -> _check_images(e)
      [] check_name = "interactive_elements" ->
             _check_interactive_elements(e)
      [] check_name = "text_content" -> _check_text_content(e)
      [] check_name = "visual_layout" -> _check_visual_layout(e)
      [] check_name = "performance" -> _check_performance_indicators(e)

----------------------------------------------------------------------------
(* The configuration *)

S_accessibility_level == <<"a","c","c","e","s","s","i","b","i","l","i","t","y","_","l","e","v","e","l">>
S_check_performance == <<"c","h","e","c","k","_","p","e","r","f","o","r","m","a","n","c","e">>
S_check_usability == <<"c","h","e","c","k","_","u","s","a","b","i","l","i","t","y">>
S_check_visual == <<"c","h","e","c","k","_","v","i","s","u","a","l">>
S_minimum_touch_target == <<"m","i","n","i","m","u","m","_","t","o","u","c","h","_","t","a","r","g","e","t">>
S_check_security == <<"c","h","e","c","k","_","s","e","c","u","r","i","t","y">>
S_AA == <<"A","A">>

_get_default_config ==
    PyDict(<< <<S_accessibility_level, PyStr(S_AA)>>,
              <<S_check_performance, PyBool(TRUE)>>,
              <<S_check_usability, PyBool(TRUE)>>,
              <<S_check_visual, PyBool(TRUE)>>,
              <<S_minimum_touch_target, PyInt(44)>>,
              <<S_check_security, PyBool(TRUE)>> >>)

\* self.config = config or self._get_default_config()
__init__(given) == IF Truthy(given) THEN given ELSE _get_default_config

----------------------------------------------------------------------------
(* The validation engine *)

\* the `checks` argument: None, or a list of names
NoChecks == [none |-> TRUE, names |-> <<>>]

Checks(names) == [none |-> FALSE, names |-> names]

\* a call that returned the results in value, having logged errors (the names
\* of the checks that raised); or a call that raised
Returned(value, errors) ==
    [raised |-> FALSE, value |-> value, errors |-> errors]

Raised(errors) == [raised |-> TRUE, value |-> <<>>, errors |-> errors]

\* the state of the loop of validate_element, before any check has run
LoopStart == [issues |-> <<>>, checks_performed |-> <<>>, errors |-> <<>>]

\* faulty variant: checks_performed.append before the rule is run
LoopStep_RecordsFirst(registry, e, check_name, acc) ==
    IF \E i \in 1..Len(registry) : registry[i] = check_name
    THEN LET out == RunRule(check_name, e)
             rec == [acc EXCEPT !.checks_performed = Append(@, check_name)]
         IN  IF out.fault
             THEN [rec EXCEPT !.errors = Append(@, check_name)]
             ELSE [rec EXCEPT !.issues = @ \o out.issues]
    ELSE acc

\* faulty variant: a name that is not registered is recorded as performed
LoopStep_RecordsUnknown(registry, e, check_name, acc) ==
    IF \E i \in 1..Len(registry) : registry[i] = check_name
    THEN LET out == RunRule(check_name, e)
         IN  IF out.fault
             THEN [acc EXCEPT !.errors = Append(@, check_name)]
             ELSE [acc EXCEPT !.issues = @ \o out.issues,
                              !.checks_performed = Append(@, check_name)]
    ELSE [acc EXCEPT !.checks_performed = Append(@, check_name)]

\* faulty variant: the issues of a check are put before those collected
LoopStep_Prepends(registry, e, check_name, acc) ==
    IF \E i \in 1..Len(registry) : registry[i] = check_name
    THEN LET out == RunRule(check_name, e)
         IN  IF out.fault
             THEN [acc EXCEPT !.errors = Append(@, check_name)]
             ELSE [acc EXCEPT !.issues = out.issues \o @,
                              !.checks_performed = Append(@, check_name)]
    ELSE acc

\* one pass of `for check_name in checks`
LoopStep(registry, e, check_name, acc) ==
    IF \E i \in 1..Len(registry) : registry[i] = check_name
    THEN LET out == RunRule(check_name, e)
         IN  IF out.fault
             THEN [acc EXCEPT !.errors = Append(@, check_name)]
             ELSE [acc EXCEPT !.issues = @ \o out.issues,
                              !.checks_performed = Append(@, check_name)]
    ELSE acc

RECURSIVE Loop(_, _, _, _)
Loop(registry, e, names, acc) ==
    IF names = <<>> THEN acc
    ELSE Loop(registry, e, Tail(names), LoopStep(registry, e, Head(names), acc))

\* faulty variant: only CRITICAL fails an element
Passed_CriticalOnly(issues) ==
    Len(SelectSeq(issues, LAMBDA i : i.severity = "critical")) = 0

\* faulty variant: any issue fails an element
Passed_NoIssues(issues) == Len(issues) = 0

\* no issue of severity CRITICAL or HIGH
Passed(issues) ==
    Len(SelectSeq(issues, LAMBDA i : i.severity \in {"critical", "high"})) = 0

\* element_info.get('attributes', {}).get(...), for the metadata
MetadataFaults(e) == GetFaults(Attributes(e))

ValidationResult(e, acc, time) ==
    [element_selector |-> Selector(e),
     passed |-> Passed(acc.issues),
     issues |-> acc.issues,
     checks_performed |-> acc.checks_performed,
     metadata |-> [element_tag |-> Get(e, S_tag_name, PyNone),
                   element_id |-> Get(Attributes(e), S_id, PyNone),
                   element_classes |-> Get(Attributes(e), S_class, PyNone)],
     validation_time |-> time]

\* faulty variant: the requested list is run after the whole registry
validate_element_RegistryFirst(registry, e, checks, time) ==
    LET names == IF checks.none THEN registry ELSE registry \o checks.names
        acc == Loop(registry, e, names, LoopStart)
    IN  IF MetadataFaults(e)
        THEN Raised(acc.errors)
        ELSE Returned(<<ValidationResult(e, acc, time)>>, acc.errors)

validate_element(registry, e, checks, time) ==
    LET names == IF checks.none THEN registry ELSE checks.names
        acc == Loop(registry, e, names, LoopStart)
    IN  IF MetadataFaults(e)
        THEN Raised(acc.errors)
        ELSE Returned(<<ValidationResult(e, acc, time)>>, acc.errors)

\* faulty variant: each result is put before those collected
RECURSIVE PageLoop_Prepends(_, _, _, _, _, _)
PageLoop_Prepends(registry, elements, checks, times, results, errors) ==
    IF elements = <<>> THEN Returned(results, errors)
    ELSE LET out == validate_element(registry, Head(elements), checks,
                                     Head(times))
         IN  IF out.raised
             THEN Raised(errors \o out.errors)
             ELSE PageLoop_Prepends(registry, Tail(elements), checks,
                                    Tail(times), <<out.value[1]>> \o results,
                                    errors \o out.errors)

\* the loop of validate_page_elements: results so far, and what is logged;
\* times[i] is the time the i-th validation takes
RECURSIVE PageLoop(_, _, _, _, _, _)
PageLoop(registry, elements, checks, times, results, errors) ==
    IF elements = <<>> THEN Returned(results, errors)
    ELSE LET out == validate_element(registry, Head(elements), checks,
                                     Head(times))
         IN  IF out.raised
             THEN Raised(errors \o out.errors)
             ELSE PageLoop(registry, Tail(elements), checks, Tail(times),
                           Append(results, out.value[1]),
                           errors \o out.errors)

validate_page_elements(registry, elements, checks, times) ==
    PageLoop(registry, elements, checks, times, <<>>, <<>>)

----------------------------------------------------------------------------
(* The summary.  A dict of counts is the sequence of its <<key, count>>    *)
(* items in insertion order.                                               *)

\* faulty variant: results without issues are counted as passed
PassedCount_IssueFree(results) ==
    Len(SelectSeq(results, LAMBDA r : r.issues = <<>>))

\* len([r for r in results if r.passed])
PassedCount(results) == Len(SelectSeq(results, LAMBDA r : r.passed))

\* all_issues, after `for result in results: all_issues.extend(result.issues)`
RECURSIVE AllIssues(_)
AllIssues(results) ==
    IF results = <<>> THEN <<>>
    ELSE Head(results).issues \o AllIssues(Tail(results))

\* d.get(key, 0)
CountOf(d, key) ==
    IF \E i \in 1..Len(d) : d[i][1] = key
    THEN d[CHOOSE i \in 1..Len(d) : d[i][1] = key][2]
    ELSE 0

\* faulty variant: the cell is set to one, not incremented
Increment_Overwrites(d, key) ==
    IF \E i \in 1..Len(d) : d[i][1] = key
    THEN [i \in 1..Len(d) |-> IF d[i][1] = key THEN <<key, 1>> ELSE d[i]]
    ELSE Append(d, <<key, 1>>)

\* d[key] = d.get(key, 0) + 1
Increment(d, key) ==
    IF \E i \in 1..Len(d) : d[i][1] = key
    THEN [i \in 1..Len(d) |->
             IF d[i][1] = key THEN <<key, CountOf(d, key) + 1>> ELSE d[i]]
    ELSE Append(d, <<key, 1>>)

\* the loop `for issue in all_issues`, on the two dicts
RECURSIVE CountIssues(_, _)
CountIssues(all_issues, maps) ==
    IF all_issues = <<>> THEN maps
    ELSE LET issue == Head(all_issues)
         IN  CountIssues(Tail(all_issues),
                 [issues_by_severity |->
                      Increment(maps.issues_by_severity, issue.severity),
                  issues_by_category |->
                      Increment(maps.issues_by_category, issue.category)])

\* a pass rate: the number num / den.  The code computes it in floating
\* point; the rounding of the division and of the product is left out.
Rate(num, den) == [num |-> num, den |-> den]

\* faulty variant: the quotient is not made a percentage
PassRate_Fraction(passed_elements, total_elements) ==
    IF total_elements > 0
    THEN Rate(passed_elements, total_elements)
    ELSE Rate(0, 1)

\* faulty variant: the division is not guarded
PassRate_Unguarded(passed_elements, total_elements) ==
    Rate(passed_elements * 100, total_elements)

\* (passed_elements / total_elements * 100) if total_elements > 0 else 0
PassRate(passed_elements, total_elements) ==
    IF total_elements > 0
    THEN Rate(passed_elements * 100, total_elements)
    ELSE Rate(0, 1)

get_validation_summary(results) ==
    LET total_elements == Len(results)
        passed_elements == PassedCount(results)
        failed_elements == total_elements - passed_elements
        all_issues == AllIssues(results)
        maps == CountIssues(all_issues, [issues_by_severity |-> <<>>,
                                         issues_by_category |-> <<>>])
    IN  [total_elements |-> total_elements,
         passed_elements |-> passed_elements,
         failed_elements |-> failed_elements,
         pass_rate |-> PassRate(passed_elements, total_elements),
         total_issues |-> Len(all_issues),
         issues_by_severity |-> maps.issues_by_severity,
         issues_by_category |-> maps.issues_by_category,
         critical_issues |-> CountOf(maps.issues_by_severity, "critical"),
         high_issues |-> CountOf(maps.issues_by_severity, "high")]

----------------------------------------------------------------------------
(* The inputs: element records, with each field absent, well-formed, or    *)
(* malformed (None, or a list where a dict is expected)                    *)

MaxChecks == 2

MaxElements == 2

Field(k, values) == {<<>>} \cup {<< <<k, v>> >> : v \in values}

S_IMG == <<"I","M","G">>
S_e1 == <<"#","e","1">>
S_Click_here == <<"C","l","i","c","k"," ","h","e","r","e">>
S_ok == <<" ","o","k"," ">>
S_http_url == <<"h","t","t","p",":","/","/","x">>

TagValues ==
    {PyNone, PyStr(S_IMG), PyStr(S_input), PyStr(S_button), PyStr(S_a),
     PyStr(S_h1)}

AttributeValues ==
    {PyNone, PyList(<<>>), PyDict(<<>>),
     PyDict(<< <<S_alt, PyNone>>, <<S_id, PyStr(S_e1)>> >>),
     PyDict(<< <<S_type, PyStr(S_button)>>, <<S_alt, PyStr(S_ok)>>,
               <<S_style, PyStr(S_ok)>> >>),
     PyDict(<< <<S_aria_label, PyStr(<<" ">>)>>, <<S_type, PyStr(S_email)>>,
               <<S_required, PyStr(<<>>)>> >>),
     PyDict(<< <<S_href, PyStr(S_http_url)>>, <<S_target, PyStr(S_blank)>>,
               <<S_class, PyStr(S_ok)>> >>)}

TextValues == {PyNone, PyStr(<<" ">> \o S_Click_here \o <<"\n">>)}

RectValues ==
    {PyNone,
     PyDict(<< <<S_width, PyInt(44)>>, <<S_height, PyInt(44)>>,
               <<S_x, PyInt(-101)>> >>),
     PyDict(<< <<S_width, PyInt(50)>>, <<S_height, PyNone>> >>)}

VisibleValues == {PyBool(FALSE)}

\* the records validated one by one; they carry no locator, the records of a
\* page do
Elements ==
    {PyDict(tag \o attrs \o text \o rect \o vis) :
        tag \in Field(S_tag_name, TagValues),
        attrs \in Field(S_attributes, AttributeValues),
        text \in Field(S_text_content, TextValues),
        rect \in Field(S_bounding_rect, RectValues),
        vis \in Field(S_is_visible, VisibleValues)}

\* the names a caller asks for: registered ones, and one that is not
RequestNames ==
    {"accessibility_basic", "interactive_elements", "no_such_check"}

RECURSIVE SeqsUpTo(_, _)
SeqsUpTo(S, n) ==
    IF n = 0 THEN {<<>>}
    ELSE LET shorter == SeqsUpTo(S, n - 1)
         IN  shorter \cup {Append(s, x) : s \in shorter, x \in S}

CheckLists ==
    {NoChecks} \cup {Checks(ns) : ns \in SeqsUpTo(RequestNames, MaxChecks)}

\* the elapsed wall time of one validation
TimeValues == {0, 1}

\* the records of a page: one that fails, one that passes with issues, one
\* whose rules raise, and one whose attributes are not a dict
PageElements ==
    {PyDict(<< <<S_tag_name, PyStr(S_IMG)>>, <<S_attributes, PyDict(<<>>)>> >>),
     PyDict(<< <<S_tag_name, PyStr(S_a)>>,
               <<S_text_content, PyStr(S_Click_here)>>,
               <<S_css_selector, PyStr(S_e1)>> >>),
     PyDict(<< <<S_tag_name, PyNone>>, <<S_css_selector, PyStr(S_e1)>> >>),
     PyDict(<< <<S_tag_name, PyStr(S_button)>>, <<S_attributes, PyNone>> >>)}

Pages == SeqsUpTo(PageElements, MaxElements)

\* the configurations a validator is constructed with: none, one option
\* only, every option with the four groups switched off, and one with a
\* threshold that is not a number
Configs ==
    {PyNone,
     PyDict(<< <<S_minimum_touch_target, PyInt(48)>> >>),
     PyDict(<< <<S_accessibility_level, PyStr(<<"A">>)>>,
               <<S_check_performance, PyBool(FALSE)>>,
               <<S_check_usability, PyBool(FALSE)>>,
               <<S_check_visual, PyBool(FALSE)>>,
               <<S_minimum_touch_target, PyInt(44)>>,
               <<S_check_security, PyBool(FALSE)>> >>),
     PyDict(<< <<S_accessibility_level, PyStr(<<"A","A","A">>)>>,
               <<S_minimum_touch_target, PyStr(<<"b","i","g">>)>> >>)}

\* a text one character longer than the limit of the long-text rule
LongText == [i \in 1..(LongTextLimit + 1) |-> "x"]

\* the records of a session; between them they meet every rule
ImageRecord ==
    PyDict(<< <<S_tag_name, PyStr(S_img)>>, <<S_attributes, PyDict(<<>>)>> >>)

LinkRecord ==
    PyDict(<< <<S_tag_name, PyStr(S_a)>>,
              <<S_attributes,
                PyDict(<< <<S_href, PyStr(S_http_url)>>,
                          <<S_target, PyStr(S_blank)>>,
                          <<S_class, PyStr(S_ok)>> >>)>>,
              <<S_text_content, PyStr(S_Click_here)>>,
              <<S_css_selector, PyStr(S_e1)>> >>)

SessionElements ==
    {ImageRecord, LinkRecord,
     PyDict(<< <<S_tag_name, PyStr(S_input)>>,
               <<S_attributes,
                 PyDict(<< <<S_aria_label, PyStr(<<" ">>)>>,
                           <<S_type, PyStr(S_email)>>,
                           <<S_required, PyStr(<<>>)>> >>)>> >>),
     PyDict(<< <<S_tag_name, PyStr(S_button)>>,
               <<S_attributes,
                 PyDict(<< <<S_type, PyStr(S_button)>>,
                           <<S_style, PyStr(S_ok)>> >>)>>,
               <<S_bounding_rect,
                 PyDict(<< <<S_width, PyInt(46)>>,
                           <<S_height, PyInt(46)>> >>)>> >>),
     PyDict(<< <<S_tag_name, PyStr(S_h1)>>,
               <<S_bounding_rect,
                 PyDict(<< <<S_width, PyInt(44)>>, <<S_height, PyInt(44)>>,
                           <<S_x, PyInt(-101)>> >>)>> >>),
     PyDict(<< <<S_tag_name, PyStr(S_a)>> >>),
     PyDict(<< <<S_text_content, PyStr(LongText)>> >>)}

SessionCheckLists == {NoChecks, Checks(<<"interactive_elements">>)}

MaxSessionPage == 3

\* the pages of a session: links that pass and images that fail, in turn
SessionPages ==
    {[i \in 1..n |-> IF i % 2 = 1 THEN LinkRecord ELSE ImageRecord] :
        n \in 0..MaxSessionPage}

----------------------------------------------------------------------------
(* The state machine: a caller of one ElementValidator *)

VARIABLES
    validation_rules,   \* self.validation_rules: the registry's keys
    config,             \* self.config
    kept,               \* a call and its results, kept by the caller
    pc,                 \* "idle", "called" while a call is pending, "done"
    call,               \* the operation called and its arguments
    outcome,            \* what the last call returned, or that it raised
    ui_validator        \* a UIValidator: self.rules (its items, in
                        \* insertion order) and self.results

vars == <<validation_rules, config, kept, pc, call, outcome, ui_validator>>

\* UIValidator.__init__ where config_path names no file
NewUIValidator == [rules |-> <<>>, results |-> <<>>]

NoCall == [op |-> "none", elements |-> <<>>, checks |-> NoChecks]

NoOutcome == Returned(<<>>, <<>>)

\* what the caller keeps before it has kept anything
NothingKept ==
    [set |-> FALSE, elements |-> <<>>, checks |-> NoChecks, results |-> <<>>]

\* ElementValidator(): a validator constructed with no configuration
Init ==
    /\ validation_rules = _load_validation_rules
    /\ config = __init__(PyNone)
    /\ kept = NothingKept
    /\ ui_validator = NewUIValidator
    /\ pc = "idle"
    /\ call = NoCall
    /\ outcome = NoOutcome

\* the caller calls validate_element(e, checks)
CallValidateElement ==
    /\ pc = "idle"
    /\ \E e \in Elements, checks \in CheckLists :
          call' = [op |-> "validate_element", elements |-> <<e>>,
                   checks |-> checks]
    /\ pc' = "called"
    /\ UNCHANGED <<ui_validator, validation_rules, config, kept, outcome>>

\* the caller calls validate_page_elements(elements, checks)
CallValidatePageElements ==
    /\ pc = "idle"
    /\ \E elements \in Pages, checks \in CheckLists :
          call' = [op |-> "validate_page_elements", elements |-> elements,
                   checks |-> checks]
    /\ pc' = "called"
    /\ UNCHANGED <<ui_validator, validation_rules, config, kept, outcome>>

\* faulty variant: a rule is taken out of the registry when it is run
\* (validation_rules.pop(check_name) for validation_rules[check_name])
ValidateElement_PopsRules ==
    /\ pc = "called"
    /\ call.op = "validate_element"
    /\ \E time \in TimeValues :
          outcome' = validate_element(validation_rules, call.elements[1],
                                      call.checks, time)
    /\ validation_rules' =
          SelectSeq(validation_rules,
                    LAMBDA name : \/ call.checks.none
                                  \/ \A i \in 1..Len(call.checks.names) :
                                         call.checks.names[i] # name)
    /\ pc' = "done"
    /\ UNCHANGED <<ui_validator, config, kept, call>>

ValidateElement ==
    /\ pc = "called"
    /\ call.op = "validate_element"
    /\ \E time \in TimeValues :
          outcome' = validate_element(validation_rules, call.elements[1],
                                      call.checks, time)
    /\ pc' = "done"
    /\ UNCHANGED <<ui_validator, validation_rules, config, kept, call>>

ValidatePageElements ==
    /\ pc = "called"
    /\ call.op = "validate_page_elements"
    /\ \E times \in [1..Len(call.elements) -> TimeValues] :
          outcome' = validate_page_elements(validation_rules, call.elements,
                                            call.checks, times)
    /\ pc' = "done"
    /\ UNCHANGED <<ui_validator, validation_rules, config, kept, call>>

\* the caller takes the outcome and goes on
Resume ==
    /\ pc = "done"
    /\ pc' = "idle"
    /\ call' = NoCall
    /\ outcome' = NoOutcome
    /\ UNCHANGED <<ui_validator, validation_rules, config, kept>>

Next ==
    \/ CallValidateElement
    \/ CallValidatePageElements
    \/ ValidateElement
    \/ ValidatePageElements
    \/ Resume

Spec == Init /\ [][Next]_vars

----------------------------------------------------------------------------
(* A session: a validator constructed with a configuration, whose caller   *)
(* validates elements and pages, keeps the results of one call and asks    *)
(* for their summary                                                       *)

SessionCall(op, given, elements, checks, results) ==
    [op |-> op, config |-> given, elements |-> elements, checks |-> checks,
     results |-> results]

SessionNoCall == SessionCall("none", PyNone, <<>>, NoChecks, <<>>)

\* ElementValidator(given) has returned
SessionInit ==
    /\ validation_rules = _load_validation_rules
    /\ \E given \in Configs :
          /\ config = __init__(given)
          /\ call = SessionCall("__init__", given, <<>>, NoChecks, <<>>)
    /\ kept = NothingKept
    /\ pc = "done"
    /\ outcome = NoOutcome
    /\ ui_validator = NewUIValidator

SessionCallValidateElement ==
    /\ pc = "idle"
    /\ \E e \in SessionElements, checks \in SessionCheckLists :
          call' = SessionCall("validate_element", PyNone, <<e>>, checks, <<>>)
    /\ pc' = "called"
    /\ UNCHANGED <<ui_validator, validation_rules, config, kept, outcome>>

SessionCallValidatePageElements ==
    /\ pc = "idle"
    /\ \E elements \in SessionPages, checks \in SessionCheckLists :
          call' = SessionCall("validate_page_elements", PyNone, elements,
                              checks, <<>>)
    /\ pc' = "called"
    /\ UNCHANGED <<ui_validator, validation_rules, config, kept, outcome>>

\* the caller calls get_validation_summary on the results it has kept
CallGetValidationSummary ==
    /\ pc = "idle"
    /\ call' = SessionCall("get_validation_summary", PyNone, <<>>, NoChecks,
                           kept.results)
    /\ pc' = "called"
    /\ UNCHANGED <<ui_validator, validation_rules, config, kept, outcome>>

\* faulty variant: the issues are moved out of the results, not copied
GetValidationSummary_DrainsIssues ==
    /\ pc = "called"
    /\ call.op = "get_validation_summary"
    /\ outcome' = Returned(<<get_validation_summary(call.results)>>, <<>>)
    /\ kept' = [kept EXCEPT !.results =
                    [i \in 1..Len(kept.results) |->
                        [kept.results[i] EXCEPT !.issues = <<>>]]]
    /\ pc' = "done"
    /\ UNCHANGED <<ui_validator, validation_rules, config, call>>

GetValidationSummary ==
    /\ pc = "called"
    /\ call.op = "get_validation_summary"
    /\ outcome' = Returned(<<get_validation_summary(call.results)>>, <<>>)
    /\ pc' = "done"
    /\ UNCHANGED <<ui_validator, validation_rules, config, kept, call>>

\* the caller keeps the results of a validation, with the call they answer
Keep ==
    /\ pc = "done"
    /\ call.op \in {"validate_element", "validate_page_elements"}
    /\ ~outcome.raised
    /\ ~kept.set
    /\ kept' = [set |-> TRUE, elements |-> call.elements,
                checks |-> call.checks, results |-> outcome.value]
    /\ pc' = "idle"
    /\ call' = SessionNoCall
    /\ outcome' = NoOutcome
    /\ UNCHANGED <<ui_validator, validation_rules, config>>

\* the caller drops the outcome and goes on
Discard ==
    /\ pc = "done"
    /\ pc' = "idle"
    /\ call' = SessionNoCall
    /\ outcome' = NoOutcome
    /\ UNCHANGED <<ui_validator, validation_rules, config, kept>>

SessionNext ==
    \/ SessionCallValidateElement
    \/ SessionCallValidatePageElements
    \/ CallGetValidationSummary
    \/ ValidateElement
    \/ ValidatePageElements
    \/ GetValidationSummary
    \/ Keep
    \/ Discard

Session == SessionInit /\ [][SessionNext]_vars

----------------------------------------------------------------------------
(* Scenarios: a validator constructed with no configuration validates an   *)
(* image, a button and links of every kind of text                         *)

ScenarioImage == ImageRecord

ScenarioLink ==
    PyDict(<< <<S_tag_name, PyStr(S_a)>>,
              <<S_text_content, PyStr(S_Click_here)>>,
              <<S_attributes, PyDict(<<>>)>> >>)

ScenarioButton ==
    PyDict(<< <<S_tag_name, PyStr(S_button)>>,
              <<S_attributes,
                PyDict(<< <<S_width, PyStr(<<"1","0">>)>>,
                          <<S_height, PyStr(<<"1","0">>)>> >>)>>,
              <<S_bounding_rect,
                PyDict(<< <<S_width, PyInt(10)>>,
                          <<S_height, PyInt(10)>> >>)>> >>)

\* link texts: blank, generic in several spellings, not generic, not a str
LinkTexts ==
    {PyStr(<<>>), PyStr(<<" ","\n">>), PyStr(S_Click_here),
     PyStr(<<" ","H","E","R","E","\n">>),
     PyStr(<<"R","e","a","d"," ","M","o","r","e">>),
     PyStr(<<"m","o","r","e">>), PyStr(<<"\t","L","i","n","k">>),
     PyStr(<<"h","e","r","e","s">>), PyStr(<<"c","l","i","c","k">>),
     PyNone}

ScenarioLinks ==
    {PyDict(<< <<S_tag_name, tag>> >> \o text \o attrs) :
        tag \in {PyStr(S_a), PyStr(<<"A">>)},
        text \in Field(S_text_content, LinkTexts),
        attrs \in Field(S_attributes,
                        {PyDict(<<>>),
                         PyDict(<< <<S_aria_label, PyStr(S_ok)>> >>)})}

ScenarioElements ==
    {ScenarioImage, ScenarioLink, ScenarioButton} \cup ScenarioLinks

ScenarioCheckLists ==
    {NoChecks, Checks(<<"link_validation">>),
     Checks(<<"accessibility_basic">>)}

ScenarioCallValidateElement ==
    /\ pc = "idle"
    /\ \E e \in ScenarioElements, checks \in ScenarioCheckLists :
          call' = [op |-> "validate_element", elements |-> <<e>>,
                   checks |-> checks]
    /\ pc' = "called"
    /\ UNCHANGED <<ui_validator, validation_rules, config, kept, outcome>>

ScenariosNext ==
    \/ ScenarioCallValidateElement
    \/ ValidateElement
    \/ Resume

Scenarios == Init /\ [][ScenariosNext]_vars

----------------------------------------------------------------------------
(* The manual workflow: a caller of one UIValidator, constructed where no   *)
(* configuration file exists                                               *)

\* `dataclass` stands on a line of its own above ValidationRule and
\* ValidationResult, without the @ of a decorator: it is not applied, and
\* the classes get no __init__ that takes the fields
DataclassApplied == FALSE

\* ValidationResult(rule_id=..., status=..., timestamp=..., notes=...,
\* evidence=..., validator=...): TypeError unless the class takes arguments
NewValidationResult(rule_id, status, timestamp) ==
    [raised |-> ~DataclassApplied,
     value |-> [rule_id |-> rule_id, status |-> status,
                timestamp |-> timestamp, notes |-> "", evidence |-> <<>>,
                validator |-> ""]]

ManualReturned(value) == [raised |-> FALSE, error |-> "", value |-> value]

ManualRaised(error) == [raised |-> TRUE, error |-> error, value |-> <<>>]

\* rule_id in self.rules
HasRule(items, rule_id) == \E i \in 1..Len(items) : items[i][1] = rule_id

\* self.rules[rule.id] = rule
add_rule(items, rule) ==
    IF HasRule(items, rule.id)
    THEN [i \in 1..Len(items) |->
             IF items[i][1] = rule.id THEN <<rule.id, rule>> ELSE items[i]]
    ELSE Append(items, <<rule.id, rule>>)

\* the outcome of validate_rule and self.results after it
validate_rule(items, recorded, rule_id, status, timestamp) ==
    IF ~HasRule(items, rule_id)
    THEN [outcome |-> ManualRaised("ValueError"), results |-> recorded]
    ELSE LET result == NewValidationResult(rule_id, status, timestamp)
         IN  IF result.raised
             THEN [outcome |-> ManualRaised("TypeError"),
                   results |-> recorded]
             ELSE [outcome |-> ManualReturned(<<result.value>>),
                   results |-> Append(recorded, result.value)]

get_pending_validations(items, recorded) ==
    LET validated_rules == {recorded[i].rule_id : i \in 1..Len(recorded)}
        keys == [i \in 1..Len(items) |-> items[i][1]]
    IN  SelectSeq(keys, LAMBDA rule_id : rule_id \notin validated_rules)

\* the rules a caller adds and the ids and statuses it reports on
RuleIds == {"r1", "r2"}

ManualRules == [id : RuleIds, priority : {"high", "low"}]

ReportedIds == RuleIds \cup {"r3"}

Statuses == {"pass", "fail"}

ManualCall(op, rule, rule_id, status) ==
    [op |-> op, rule |-> rule, rule_id |-> rule_id, status |-> status]

NoRule == [id |-> "", priority |-> ""]

ManualInit ==
    /\ ui_validator = NewUIValidator
    /\ pc = "idle"
    /\ call = ManualCall("none", NoRule, "", "")
    /\ outcome = ManualReturned(<<>>)
    /\ validation_rules = <<>>
    /\ config = PyNone
    /\ kept = NothingKept

CallAddRule ==
    /\ pc = "idle"
    /\ \E rule \in ManualRules : call' = ManualCall("add_rule", rule, "", "")
    /\ pc' = "called"
    /\ UNCHANGED <<ui_validator, validation_rules, config, kept, outcome>>

CallValidateRule ==
    /\ pc = "idle"
    /\ \E rule_id \in ReportedIds, status \in Statuses :
          call' = ManualCall("validate_rule", NoRule, rule_id, status)
    /\ pc' = "called"
    /\ UNCHANGED <<ui_validator, validation_rules, config, kept, outcome>>

CallGetPendingValidations ==
    /\ pc = "idle"
    /\ call' = ManualCall("get_pending_validations", NoRule, "", "")
    /\ pc' = "called"
    /\ UNCHANGED <<ui_validator, validation_rules, config, kept, outcome>>

AddRule ==
    /\ pc = "called"
    /\ call.op = "add_rule"
    /\ ui_validator' = [ui_validator EXCEPT
                          !.rules = add_rule(@, call.rule)]
    /\ outcome' = ManualReturned(<<>>)
    /\ pc' = "done"
    /\ UNCHANGED <<validation_rules, config, kept, call>>

ValidateRule ==
    /\ pc = "called"
    /\ call.op = "validate_rule"
    /\ \E timestamp \in TimeValues :
          LET after == validate_rule(ui_validator.rules,
                                     ui_validator.results, call.rule_id,
                                     call.status, timestamp)
          IN  /\ outcome' = after.outcome
              /\ ui_validator' = [ui_validator EXCEPT
                                      !.results = after.results]
    /\ pc' = "done"
    /\ UNCHANGED <<validation_rules, config, kept, call>>

GetPendingValidations ==
    /\ pc = "called"
    /\ call.op = "get_pending_validations"
    /\ outcome' = ManualReturned(get_pending_validations(ui_validator.rules,
                                                         ui_validator.results))
    /\ pc' = "done"
    /\ UNCHANGED <<ui_validator, validation_rules, config, kept, call>>

ManualResume ==
    /\ pc = "done"
    /\ pc' = "idle"
    /\ call' = ManualCall("none", NoRule, "", "")
    /\ outcome' = ManualReturned(<<>>)
    /\ UNCHANGED <<ui_validator, validation_rules, config, kept>>

ManualNext ==
    \/ CallAddRule
    \/ CallValidateRule
    \/ CallGetPendingValidations
    \/ AddRule
    \/ ValidateRule
    \/ GetPendingValidations
    \/ ManualResume

Manual == ManualInit /\ [][ManualNext]_vars

----------------------------------------------------------------------------
(* Properties of validate_element and validate_page_elements *)

ElementDone == pc = "done" /\ call.op = "validate_element"

PageDone == pc = "done" /\ call.op = "validate_page_elements"

ElementReturned == ElementDone /\ ~outcome.raised

\* the names the loop of validate_element goes through
Requested == IF call.checks.none THEN validation_rules ELSE call.checks.names

Registered(name) == \E i \in 1..Len(validation_rules) : validation_rules[i] = name

Occurs(name, names) == \E i \in 1..Len(names) : names[i] = name

Count(name, names) == Cardinality({i \in 1..Len(names) : names[i] = name})

Failing(issue) == issue.severity \in {"critical", "high"}

\* a result, and an outcome, with the elapsed time left out
Timeless(r) == [r EXCEPT !.validation_time = 0]

TimelessOutcome(o) ==
    [o EXCEPT !.value = [k \in 1..Len(o.value) |-> Timeless(o.value[k])]]

\* C1: in every result returned, by validate_element or in the list of
\* validate_page_elements, passed is true if and only if no issue of the
\* result has severity critical or high.
C1_PassedIffNoCriticalOrHigh ==
    pc = "done" =>
        \A k \in 1..Len(outcome.value) :
            LET r == outcome.value[k]
            IN  r.passed <=> (\A i \in 1..Len(r.issues) : ~Failing(r.issues[i]))

\* a result that holds issues, one of them high, and one that holds only
\* lower severities and passed
C1_Witness ==
    /\ PageDone
    /\ \E k \in 1..Len(outcome.value) :
          /\ ~outcome.value[k].passed
          /\ \E i \in 1..Len(outcome.value[k].issues) :
                outcome.value[k].issues[i].severity = "high"
    /\ \E k \in 1..Len(outcome.value) :
          /\ outcome.value[k].passed
          /\ \E i \in 1..Len(outcome.value[k].issues) :
                outcome.value[k].issues[i].severity = "medium"

\* C2: when a rule raises while validate_element evaluates a record, a
\* result is still returned, the rule that raised is not in checks_performed,
\* and every registered rule requested after it that does not raise is in
\* checks_performed with its issues in the result.
C2_FaultContained ==
    (ElementDone /\ outcome.errors # <<>>) =>
        /\ ~outcome.raised
        /\ LET r == outcome.value[1]
               e == call.elements[1]
           IN  /\ \A i \in 1..Len(outcome.errors) :
                      ~Occurs(outcome.errors[i], r.checks_performed)
               /\ \A j \in 1..Len(Requested) :
                      (Registered(Requested[j]) /\ ~RunRule(Requested[j], e).fault)
                          => /\ Occurs(Requested[j], r.checks_performed)
                             /\ \A m \in 1..Len(RunRule(Requested[j], e).issues) :
                                    \E n \in 1..Len(r.issues) :
                                        r.issues[n] = RunRule(Requested[j], e).issues[m]

\* C3: validate_element never raises to its caller.
C3_NeverRaises == ElementDone => ~outcome.raised

\* C4: validate_page_elements never aborts: it returns one result for
\* every record of the list.
C4_PageNeverAborts ==
    PageDone => (~outcome.raised /\ Len(outcome.value) = Len(call.elements))

\* C5: every name in checks_performed was requested, and no rule that
\* raised on the record is in checks_performed.
C5_PerformedRequestedAndNotFaulted ==
    ElementReturned =>
        LET r == outcome.value[1]
        IN  \A i \in 1..Len(r.checks_performed) :
                /\ Occurs(r.checks_performed[i], Requested)
                /\ Registered(r.checks_performed[i])
                /\ ~RunRule(r.checks_performed[i], call.elements[1]).fault
                /\ ~Occurs(r.checks_performed[i], outcome.errors)

\* a rule raised, and a rule requested with it was performed
C5_Witness ==
    /\ ElementReturned
    /\ ~call.checks.none
    /\ outcome.errors # <<>>
    /\ outcome.value[1].checks_performed # <<>>

\* C6, as stated: each rule identifier appears at most once in
\* checks_performed, whatever list of names was requested.
C6_AtMostOnce ==
    ElementReturned =>
        \A n \in RequestNames : Count(n, outcome.value[1].checks_performed) <= 1

\* C6, amended: a rule identifier appears in checks_performed at most as
\* often as it appears in the requested list, hence at most once when the
\* list repeats no name or is omitted.
C6_AtMostAsOftenAsRequested ==
    ElementReturned =>
        \A i \in 1..Len(validation_rules) :
            Count(validation_rules[i], outcome.value[1].checks_performed)
                <= Count(validation_rules[i], Requested)

\* a name requested twice is performed twice
C6_Witness ==
    /\ ElementReturned
    /\ \E n \in RequestNames :
          /\ Count(n, call.checks.names) = 2
          /\ Count(n, outcome.value[1].checks_performed) = 2

\* C7: a requested name that is not registered is ignored: it is not in
\* checks_performed, nothing is logged for it, and the call ends as the call
\* with the registered names alone ends, elapsed time left out.
C7_UnknownNameIgnored ==
    (ElementDone /\ ~call.checks.none) =>
        LET known == SelectSeq(call.checks.names, Registered)
        IN  /\ \A i \in 1..Len(call.checks.names) :
                  ~Registered(call.checks.names[i]) =>
                      /\ ~Occurs(call.checks.names[i], outcome.errors)
                      /\ \A k \in 1..Len(outcome.value) :
                            ~Occurs(call.checks.names[i],
                                    outcome.value[k].checks_performed)
            /\ TimelessOutcome(outcome)
                  = validate_element(validation_rules, call.elements[1],
                                     Checks(known), 0)

\* a name that is not registered was requested before a registered one,
\* which was performed and found an issue
C7_Witness ==
    /\ ElementReturned
    /\ Len(call.checks.names) = 2
    /\ ~Registered(call.checks.names[1])
    /\ outcome.value[1].checks_performed = <<call.checks.names[2]>>
    /\ outcome.value[1].issues # <<>>

\* a field of a record is absent, or has a value of the type the rules read
Has(c, k) == \E i \in 1..Len(c.d) : c.d[i][1] = k

AllItems(c, type) == c.t = "dict" /\ \A i \in 1..Len(c.d) : c.d[i][2].t = type

WellFormedOrAbsent(e) ==
    /\ Has(e, S_tag_name) => Get(e, S_tag_name, PyNone).t = "str"
    /\ Has(e, S_attributes) => AllItems(Get(e, S_attributes, PyNone), "str")
    /\ Has(e, S_text_content) => Get(e, S_text_content, PyNone).t = "str"
    /\ Has(e, S_css_selector) => Get(e, S_css_selector, PyNone).t = "str"
    /\ Has(e, S_bounding_rect) =>
           AllItems(Get(e, S_bounding_rect, PyNone), "int")
    /\ Has(e, S_is_visible) => Get(e, S_is_visible, PyNone).t = "bool"

\* the record with every absent field, but the locator, given its default
WithDefaults(e) ==
    LET rect == Get(e, S_bounding_rect, PyDict(<<>>))
    IN  PyDict(
          << <<S_tag_name, Get(e, S_tag_name, PyStr(<<>>))>>,
             <<S_attributes, Get(e, S_attributes, PyDict(<<>>))>>,
             <<S_text_content, Get(e, S_text_content, PyStr(<<>>))>>,
             <<S_bounding_rect,
               PyDict(<< <<S_x, Get(rect, S_x, PyInt(0))>>,
                         <<S_y, Get(rect, S_y, PyInt(0))>>,
                         <<S_width, Get(rect, S_width, PyInt(0))>>,
                         <<S_height, Get(rect, S_height, PyInt(0))>> >>)>>,
             <<S_is_visible, Get(e, S_is_visible, PyBool(TRUE))>> >>
          \o (IF Has(e, S_css_selector)
              THEN << <<S_css_selector, Get(e, S_css_selector, PyNone)>> >>
              ELSE <<>>))

\* C8: on a record whose fields are each absent or well-formed, with the
\* rule list omitted, no rule raises: a result is returned, nothing is
\* logged, every registered rule is in checks_performed, and the issues are
\* those of the record with tag "", attributes {}, text "", geometry 0 and
\* visible true in place of what is absent.
C8_AbsentFieldsAreDefaults ==
    (ElementDone /\ call.checks.none /\ WellFormedOrAbsent(call.elements[1])) =>
        /\ ~outcome.raised
        /\ outcome.errors = <<>>
        /\ \A i \in 1..Len(validation_rules) :
              Occurs(validation_rules[i], outcome.value[1].checks_performed)
        /\ LET full == validate_element(validation_rules,
                           WithDefaults(call.elements[1]), NoChecks, 0)
           IN  /\ ~full.raised
               /\ outcome.value[1].issues = full.value[1].issues
               /\ outcome.value[1].passed = full.value[1].passed

\* tag, attributes, text, visibility and the y coordinate are absent, and the
\* element is found outside the viewport
C8_Witness ==
    /\ ElementReturned
    /\ call.checks.none
    /\ WellFormedOrAbsent(call.elements[1])
    /\ ~Has(call.elements[1], S_tag_name)
    /\ ~Has(call.elements[1], S_attributes)
    /\ ~Has(call.elements[1], S_text_content)
    /\ ~Has(call.elements[1], S_is_visible)
    /\ ~Has(call.elements[1], S_css_selector)
    /\ Has(call.elements[1], S_bounding_rect)
    /\ ~Has(Get(call.elements[1], S_bounding_rect, PyNone), S_y)
    /\ Len(outcome.value[1].checks_performed) = Len(validation_rules)
    /\ outcome.value[1].issues # <<>>

\* C9: the list validate_page_elements returns has the length of the input,
\* and its i-th result is the result of validate_element on the i-th record
\* with the same rule names, elapsed time left out; it returns no list
\* exactly when validate_element raises on one of the records.
C9_PageIsElementwise ==
    PageDone =>
        LET single(i) == validate_element(validation_rules, call.elements[i],
                                          call.checks, 0)
        IN  /\ outcome.raised <=>
                  \E i \in 1..Len(call.elements) : single(i).raised
            /\ ~outcome.raised =>
                  /\ Len(outcome.value) = Len(call.elements)
                  /\ \A i \in 1..Len(call.elements) :
                        Timeless(outcome.value[i]) = single(i).value[1]

\* a page of two records whose results differ
C9_Witness ==
    /\ PageDone
    /\ ~outcome.raised
    /\ Len(outcome.value) = 2
    /\ outcome.value[1].issues # outcome.value[2].issues
    /\ outcome.value[1].passed # outcome.value[2].passed

\* the issues of the registered rules among names that do not raise on e,
\* each rule run alone, in the order of names
RECURSIVE IssuesInOrder(_, _)
IssuesInOrder(e, names) ==
    IF names = <<>> THEN <<>>
    ELSE (IF Registered(Head(names))
          THEN LET alone == RunRule(Head(names), e)
               IN  IF alone.fault THEN <<>> ELSE alone.issues
          ELSE <<>>)
         \o IssuesInOrder(e, Tail(names))

\* C10: the issues of a result are the issue lists of the registered rules
\* requested that do not raise, each as the rule run alone emits it,
\* concatenated in the order the names are requested.
C10_IssuesInRequestOrder ==
    ElementReturned =>
        outcome.value[1].issues = IssuesInOrder(call.elements[1], Requested)

\* two rules requested against the registry's order each find an issue
C10_Witness ==
    /\ ElementReturned
    /\ ~call.checks.none
    /\ call.checks.names = <<"interactive_elements", "accessibility_basic">>
    /\ Len(outcome.value[1].issues) = 2
    /\ outcome.value[1].issues[1].issue_type = "small_touch_target"
    /\ outcome.value[1].issues[2].issue_type = "button_no_accessible_name"

----------------------------------------------------------------------------
(* Properties of the default check set and of the configuration *)

\* C11: when validate_element is called without a rule list and no rule
\* raises on the record, checks_performed is the nine registry keys in
\* registration order: accessibility_basic, accessibility_advanced,
\* form_validation, link_validation, image_validation,
\* interactive_elements, text_content, visual_layout, performance.
C11_OmittedRunsRegistryInOrder ==
    (ElementReturned /\ call.checks.none /\ outcome.errors = <<>>) =>
        outcome.value[1].checks_performed =
            <<"accessibility_basic", "accessibility_advanced",
              "form_validation", "link_validation", "image_validation",
              "interactive_elements", "text_content", "visual_layout",
              "performance">>

\* a call without a rule list, on which no rule raises and rules of the
\* first and of the last group both find something
C11_Witness ==
    /\ ElementReturned
    /\ call.checks.none
    /\ outcome.errors = <<>>
    /\ Len(outcome.value[1].checks_performed) = Len(validation_rules)
    /\ \E i, j \in 1..Len(outcome.value[1].issues) :
          /\ outcome.value[1].issues[i].issue_type
                = "button_no_accessible_name"
          /\ outcome.value[1].issues[j].issue_type = "inline_styles"

\* an option of the configuration in force is present and False
SwitchedOff(option) ==
    /\ config.t = "dict"
    /\ Has(config, option)
    /\ Get(config, option, PyNone) = PyBool(FALSE)

\* the rule groups the four booleans stand for: the rules of the registry
\* and the issue types of each
RuleGroups ==
    {[option |-> S_check_performance, rules |-> {"performance"},
      types |-> {"missing_loading_attribute", "missing_image_dimensions",
                 "inline_styles"}],
     [option |-> S_check_usability, rules |-> {"interactive_elements"},
      types |-> {"generic_link_text", "small_touch_target",
                 "long_text_no_breaks"}],
     [option |-> S_check_visual, rules |-> {"visual_layout"},
      types |-> {"element_outside_viewport"}],
     [option |-> S_check_security, rules |-> {},
      types |-> {"external_link_security"}]}

\* C12: when the validator is constructed with one of check_performance,
\* check_usability, check_visual, check_security false and validate_element
\* is called without a rule list, the rule group of that option is not run:
\* its rules are absent from checks_performed and none of its issue types is
\* in the result.
C12_ConfigGatesDefaultChecks ==
    (ElementReturned /\ call.checks.none) =>
        \A g \in RuleGroups :
            SwitchedOff(g.option) =>
                /\ \A i \in 1..Len(outcome.value[1].checks_performed) :
                       outcome.value[1].checks_performed[i] \notin g.rules
                /\ \A i \in 1..Len(outcome.value[1].issues) :
                       outcome.value[1].issues[i].issue_type \notin g.types

\* minimum_touch_target of the configuration in force, 44 when it is not
\* set to a number
ConfiguredTouchTarget ==
    IF config.t = "dict" /\ Has(config, S_minimum_touch_target)
       /\ Get(config, S_minimum_touch_target, PyNone).t = "int"
    THEN Get(config, S_minimum_touch_target, PyNone).n
    ELSE 44

HasIssue(result, type) ==
    \E i \in 1..Len(result.issues) : result.issues[i].issue_type = type

\* C13: where the interactive_elements rule has run, small_touch_target is
\* raised exactly when the tag is one of button, a, input, select, textarea
\* and the bounding width or height is strictly less than the configured
\* minimum_touch_target (44 when the option is not set).
C13_TouchTargetAgainstConfigured ==
    (ElementReturned
     /\ Occurs("interactive_elements", outcome.value[1].checks_performed)) =>
        (HasIssue(outcome.value[1], "small_touch_target") <=>
            /\ TagName(call.elements[1]) \in interactive_tags
            /\ \/ NumOf(Coord(call.elements[1], S_width))
                     < ConfiguredTouchTarget
               \/ NumOf(Coord(call.elements[1], S_height))
                     < ConfiguredTouchTarget)

\* the options of the configuration, and the values each admits
Options ==
    {S_accessibility_level, S_check_performance, S_check_usability,
     S_check_visual, S_minimum_touch_target, S_check_security}

WellFormedOption(option, v) ==
    IF option = S_accessibility_level
    THEN v \in {PyStr(<<"A">>), PyStr(S_AA), PyStr(<<"A","A","A">>)}
    ELSE IF option = S_minimum_touch_target
    THEN v.t = "int"
    ELSE v.t = "bool"

\* C14: after ElementValidator(given), every option that given omits, or
\* gives a malformed value for, has its documented default in self.config
\* (accessibility_level AA, the four check_* booleans true,
\* minimum_touch_target 44).
C14_OmittedOptionsGetDefaults ==
    (pc = "done" /\ call.op = "__init__") =>
        \A option \in Options :
            (\/ call.config.t # "dict"
             \/ ~Has(call.config, option)
             \/ ~WellFormedOption(option, Get(call.config, option, PyNone)))
            => /\ config.t = "dict"
               /\ Has(config, option)
               /\ Get(config, option, PyNone)
                     = Get(_get_default_config, option, PyNone)

----------------------------------------------------------------------------
(* Properties of get_validation_summary *)

SummaryDone == pc = "done" /\ call.op = "get_validation_summary"

\* the sum of the counts of a dict of counts
RECURSIVE SumCounts(_)
SumCounts(d) == IF d = <<>> THEN 0 ELSE Head(d)[2] + SumCounts(Tail(d))

\* how many of the issues have value v in the field the selector reads
HowMany(issues, v, Field1(_)) ==
    Cardinality({i \in 1..Len(issues) : Field1(issues[i]) = v})

SeverityOf(issue) == issue.severity

CategoryOf(issue) == issue.category

\* C15: get_validation_summary([]) returns, without raising, total_elements,
\* passed_elements, failed_elements, total_issues, critical_issues and
\* high_issues all 0, pass_rate 0, and two histograms with no cell that is
\* not zero.
C15_EmptySummaryIsAllZero ==
    (SummaryDone /\ call.results = <<>>) =>
        /\ ~outcome.raised
        /\ LET s == outcome.value[1]
           IN  /\ s.total_elements = 0
               /\ s.passed_elements = 0
               /\ s.failed_elements = 0
               /\ s.pass_rate.den # 0 /\ s.pass_rate.num = 0
               /\ s.total_issues = 0
               /\ s.critical_issues = 0
               /\ s.high_issues = 0
               /\ \A i \in 1..Len(s.issues_by_severity) :
                      s.issues_by_severity[i][2] = 0
               /\ \A i \in 1..Len(s.issues_by_category) :
                      s.issues_by_category[i][2] = 0

\* the summary of an empty page that was validated and kept
C15_Witness ==
    /\ SummaryDone
    /\ kept.set
    /\ call.results = <<>>
    /\ outcome.value[1].total_elements = 0

\* C16: for a non-empty list of results, total_elements is its length,
\* passed_elements the number of results whose passed is true, and
\* passed_elements + failed_elements = total_elements.
C16_SummaryCountsElements ==
    (SummaryDone /\ call.results # <<>>) =>
        LET s == outcome.value[1]
        IN  /\ s.total_elements = Len(call.results)
            /\ s.passed_elements =
                   Cardinality({i \in 1..Len(call.results) :
                                   call.results[i].passed})
            /\ s.passed_elements + s.failed_elements = s.total_elements

\* the summary of results of which some passed, one of these with issues,
\* and some failed
C16_Witness ==
    /\ SummaryDone
    /\ outcome.value[1].passed_elements > 0
    /\ outcome.value[1].failed_elements > 0
    /\ \E i \in 1..Len(call.results) :
          call.results[i].passed /\ call.results[i].issues # <<>>

\* C17: total_issues, the sum of the severity counts and the sum of the
\* category counts all equal the number of issues over all results; the
\* cell of each severity and of each category counts the issues that carry
\* it; critical_issues and high_issues are the cells of critical and high,
\* 0 when the cell is absent.
C17_EachIssueCountedOncePerHistogram ==
    SummaryDone =>
        LET s == outcome.value[1]
            issues == AllIssues(call.results)
        IN  /\ s.total_issues = Len(issues)
            /\ SumCounts(s.issues_by_severity) = Len(issues)
            /\ SumCounts(s.issues_by_category) = Len(issues)
            /\ \A v \in ValidationSeverity :
                   /\ CountOf(s.issues_by_severity, v)
                        = HowMany(issues, v, SeverityOf)
                   /\ Cardinality({i \in 1..Len(s.issues_by_severity) :
                           s.issues_by_severity[i][1] = v}) <= 1
            /\ \A v \in ValidationCategory :
                   /\ CountOf(s.issues_by_category, v)
                        = HowMany(issues, v, CategoryOf)
                   /\ Cardinality({i \in 1..Len(s.issues_by_category) :
                           s.issues_by_category[i][1] = v}) <= 1
            /\ s.critical_issues = HowMany(issues, "critical", SeverityOf)
            /\ s.high_issues = HowMany(issues, "high", SeverityOf)

\* a summary in which one severity is counted more than once, one category
\* too, the cell of high is there and the cell of critical is not
C17_Witness ==
    /\ SummaryDone
    /\ outcome.value[1].high_issues > 0
    /\ outcome.value[1].critical_issues = 0
    /\ \E i \in 1..Len(outcome.value[1].issues_by_severity) :
          outcome.value[1].issues_by_severity[i][2] > 1
    /\ \E i \in 1..Len(outcome.value[1].issues_by_category) :
          outcome.value[1].issues_by_category[i][2] > 1

----------------------------------------------------------------------------
(* Properties of a session *)

\* what a result says, its elapsed time apart
Findings(r) ==
    [issues |-> r.issues, passed |-> r.passed,
     checks_performed |-> r.checks_performed]

\* C18: a validate_element call with the record and the rule list of an
\* earlier validation by the same validator returns the same issues in the
\* same order, the same passed and the same checks_performed as that
\* validation did, whatever was called in between.
C18_SameCallSameFindings ==
    (ElementReturned /\ kept.set /\ kept.checks = call.checks) =>
        \A i \in 1..Len(kept.elements) :
            kept.elements[i] = call.elements[1] =>
                Findings(outcome.value[1]) = Findings(kept.results[i])

\* a call repeated after its results were kept, that finds issues and takes
\* another time than it did
C18_Witness ==
    /\ ElementReturned
    /\ kept.set
    /\ kept.checks = call.checks
    /\ \E i \in 1..Len(kept.elements) :
          /\ kept.elements[i] = call.elements[1]
          /\ kept.results[i].issues # <<>>
          /\ kept.results[i].validation_time
                # outcome.value[1].validation_time

\* C19: no step changes the rule registry or the configuration, and no
\* call of validate_element, validate_page_elements or
\* get_validation_summary changes its arguments (the records, the rule-name
\* list, the results) or the results returned before.
C19_NothingSharedOrGivenIsModified ==
    [][/\ validation_rules' = validation_rules
       /\ config' = config
       /\ pc = "called" => (call' = call /\ kept' = kept)]_vars

\* a summary has been computed of kept results that hold issues
C19_Witness ==
    /\ SummaryDone
    /\ kept.set
    /\ AllIssues(kept.results) # <<>>
    /\ outcome.value[1].total_issues > 0

\* the rule table: the severity and the category of each issue type
RuleTable ==
    [type \in {"missing_alt_text", "button_no_accessible_name", "empty_link"}
        |-> <<"high", "accessibility">>]
    @@ [type \in {"missing_input_id", "empty_heading", "empty_aria_attribute"}
        |-> <<"medium", "accessibility">>]
    @@ [type \in {"missing_aria_required"} |-> <<"low", "accessibility">>]
    @@ [type \in {"email_input_no_validation"} |-> <<"low", "functionality">>]
    @@ [type \in {"generic_link_text", "small_touch_target"}
        |-> <<"medium", "usability">>]
    @@ [type \in {"external_link_security"} |-> <<"medium", "compliance">>]
    @@ [type \in {"missing_loading_attribute", "missing_image_dimensions",
                  "inline_styles"} |-> <<"low", "performance">>]
    @@ [type \in {"long_text_no_breaks"} |-> <<"low", "usability">>]
    @@ [type \in {"element_outside_viewport"} |-> <<"low", "visual">>]

\* C20: every issue of every result returned has a severity among critical,
\* high, medium, low, info and a category among accessibility,
\* functionality, visual, performance, usability, compliance, and they are
\* the severity and the category the rule table gives its issue type.
C20_IssuesFollowRuleTable ==
    (pc = "done" /\ ~outcome.raised
     /\ call.op \in {"validate_element", "validate_page_elements"}) =>
        \A k \in 1..Len(outcome.value) :
            \A i \in 1..Len(outcome.value[k].issues) :
                LET issue == outcome.value[k].issues[i]
                IN  /\ issue.severity \in ValidationSeverity
                    /\ issue.category \in ValidationCategory
                    /\ issue.issue_type \in DOMAIN RuleTable
                    /\ <<issue.severity, issue.category>>
                          = RuleTable[issue.issue_type]

\* a page with a link that gets external_link_security and
\* generic_link_text and an image that gets missing_alt_text
C20_Witness ==
    /\ PageDone
    /\ ~outcome.raised
    /\ \E k \in 1..Len(outcome.value) :
          /\ HasIssue(outcome.value[k], "external_link_security")
          /\ HasIssue(outcome.value[k], "generic_link_text")
    /\ \E k \in 1..Len(outcome.value) :
          HasIssue(outcome.value[k], "missing_alt_text")

----------------------------------------------------------------------------
(* The scenarios *)

\* the call validate_element(e) has returned
ScenarioReturned(e) ==
    ElementReturned /\ call.checks.none /\ call.elements[1] = e

IssueTypes(result) ==
    [i \in 1..Len(result.issues) |-> result.issues[i].issue_type]

\* the result holds an issue of this type, severity and category
HasIssueAs(result, type, severity, category) ==
    \E i \in 1..Len(result.issues) :
        /\ result.issues[i].issue_type = type
        /\ result.issues[i].severity = severity
        /\ result.issues[i].category = category

\* C21 as stated: validate_element without a rule list on {tag_name: img,
\* attributes: {}} returns exactly one issue, missing_alt_text (high,
\* accessibility), and passed = false.
C21_ImageHasExactlyOneIssue ==
    ScenarioReturned(ScenarioImage) =>
        /\ IssueTypes(outcome.value[1]) = <<"missing_alt_text">>
        /\ HasIssueAs(outcome.value[1], "missing_alt_text", "high",
                      "accessibility")
        /\ ~outcome.value[1].passed

\* C21 amended: it returns exactly three issues, missing_alt_text (high,
\* accessibility), then missing_loading_attribute and
\* missing_image_dimensions (both low, performance); missing_alt_text is
\* its one issue of severity high, and passed = false.
C21_ImageHasOneHighIssueOfThree ==
    ScenarioReturned(ScenarioImage) =>
        /\ IssueTypes(outcome.value[1]) =
              <<"missing_alt_text", "missing_loading_attribute",
                "missing_image_dimensions">>
        /\ HasIssueAs(outcome.value[1], "missing_alt_text", "high",
                      "accessibility")
        /\ HasIssueAs(outcome.value[1], "missing_loading_attribute", "low",
                      "performance")
        /\ HasIssueAs(outcome.value[1], "missing_image_dimensions", "low",
                      "performance")
        /\ ~outcome.value[1].passed

C21_Witness ==
    /\ ScenarioReturned(ScenarioImage)
    /\ outcome.errors = <<>>
    /\ Len(outcome.value[1].checks_performed) = Len(validation_rules)

\* the texts the claim calls generic
ClaimedGenericTexts ==
    {<<"c","l","i","c","k"," ","h","e","r","e">>,
     <<"r","e","a","d"," ","m","o","r","e">>,
     <<"m","o","r","e">>, <<"l","i","n","k">>, <<"h","e","r","e">>}

\* the record is a link with a text, and link_validation has run on it
LinkValidated(e, result) ==
    /\ TagValue(e).t = "str"
    /\ TagName(e) = S_a
    /\ TextValue(e).t = "str"
    /\ Occurs("link_validation", result.checks_performed)

\* C22: validate_element without a rule list on {tag_name: a,
\* text_content: "Click here", attributes: {}} returns issues that include
\* generic_link_text (medium, usability) and not empty_link, and
\* passed = true; and of every link on which link_validation has run, one
\* whose trimmed text is not blank gets no empty_link, and one whose
\* trimmed, lower-cased text is click here, read more, more, link or here
\* gets generic_link_text.
C22_LinkTextRules ==
    /\ ScenarioReturned(ScenarioLink) =>
          /\ HasIssueAs(outcome.value[1], "generic_link_text", "medium",
                        "usability")
          /\ ~HasIssue(outcome.value[1], "empty_link")
          /\ outcome.value[1].passed
    /\ (ElementReturned
        /\ LinkValidated(call.elements[1], outcome.value[1])) =>
          /\ StrippedText(call.elements[1]) # <<>> =>
                ~HasIssue(outcome.value[1], "empty_link")
          /\ Lower(StrippedText(call.elements[1])) \in ClaimedGenericTexts =>
                HasIssue(outcome.value[1], "generic_link_text")

\* the link of the scenario has been validated
C22_Witness ==
    /\ ScenarioReturned(ScenarioLink)
    /\ LinkValidated(call.elements[1], outcome.value[1])
    /\ HasIssue(outcome.value[1], "generic_link_text")

\* C23: validate_element without a rule list on a button without text, with
\* attributes {width: "10", height: "10"} and a bounding rectangle of 10 by
\* 10 returns issues that include button_no_accessible_name (high) and
\* small_touch_target (medium), and passed = false.
C23_SmallUnnamedButton ==
    ScenarioReturned(ScenarioButton) =>
        /\ \E i \in 1..Len(outcome.value[1].issues) :
              /\ outcome.value[1].issues[i].issue_type
                    = "button_no_accessible_name"
              /\ outcome.value[1].issues[i].severity = "high"
        /\ \E i \in 1..Len(outcome.value[1].issues) :
              /\ outcome.value[1].issues[i].issue_type = "small_touch_target"
              /\ outcome.value[1].issues[i].severity = "medium"
        /\ ~outcome.value[1].passed

C23_Witness ==
    /\ ScenarioReturned(ScenarioButton)
    /\ outcome.errors = <<>>
    /\ Len(outcome.value[1].issues) >= 2

----------------------------------------------------------------------------
(* The pass rule and the summary *)

HighIssues(result) ==
    Cardinality({i \in 1..Len(result.issues) :
                    result.issues[i].severity = "high"})

\* a summary of three results: two passed, one failed with one high issue
ThreeResultsOneFailed ==
    /\ SummaryDone
    /\ Len(call.results) = 3
    /\ Cardinality({i \in 1..3 : call.results[i].passed}) = 2
    /\ \A i \in 1..3 :
          ~call.results[i].passed => HighIssues(call.results[i]) = 1

\* the rate is the number n / d
RateIs(rate, n, d) == rate.den # 0 /\ rate.num * d = n * rate.den

\* the rate, rounded to hundredths, is h / 100
RateRoundsTo(rate, h) ==
    rate.den > 0 /\ (2 * 100 * rate.num + rate.den) \div (2 * rate.den) = h

\* C24 as stated: for three results of which two passed and one failed with
\* one high issue, the summary has total_elements 3, passed_elements 2,
\* failed_elements 1, pass_rate 66.67 and high_issues >= 1.
C24_ThreeResultsRate6667 ==
    ThreeResultsOneFailed =>
        LET s == outcome.value[1]
        IN  /\ s.total_elements = 3
            /\ s.passed_elements = 2
            /\ s.failed_elements = 1
            /\ RateIs(s.pass_rate, 6667, 100)
            /\ s.high_issues >= 1

\* C24 amended: ... and pass_rate is passed_elements / total_elements * 100
\* unrounded, that is 200 / 3, which is 66.67 once rounded to hundredths.
C24_ThreeResultsRateTwoThirds ==
    ThreeResultsOneFailed =>
        LET s == outcome.value[1]
        IN  /\ s.total_elements = 3
            /\ s.passed_elements = 2
            /\ s.failed_elements = 1
            /\ RateIs(s.pass_rate, s.passed_elements * 100, s.total_elements)
            /\ RateIs(s.pass_rate, 200, 3)
            /\ RateRoundsTo(s.pass_rate, 6667)
            /\ s.high_issues >= 1

C24_Witness ==
    /\ ThreeResultsOneFailed
    /\ kept.set
    /\ outcome.value[1].high_issues = 1

\* the tags for which a rule emits an issue of severity high
HighRules ==
    [type \in {"missing_alt_text"} |-> {S_img}]
    @@ [type \in {"button_no_accessible_name"} |-> {S_button, S_input}]
    @@ [type \in {"empty_link"} |-> {S_a}]

\* the lower-cased tag of the record, <<>> when it has none
TagOrNone(e) == IF TagValue(e).t = "str" THEN TagName(e) ELSE <<>>

\* C25: every result returned for a record whose lower-cased tag is not
\* img, button, input or a has passed = true, whatever the rule list; and
\* in every result no issue is critical, and an issue of severity high is
\* missing_alt_text on an img, button_no_accessible_name on a button or an
\* input, or empty_link on an a.
C25_OtherTagsAlwaysPass ==
    ElementReturned =>
        /\ TagOrNone(call.elements[1]) \notin {S_img, S_button, S_input, S_a}
              => outcome.value[1].passed
        /\ \A i \in 1..Len(outcome.value[1].issues) :
              LET issue == outcome.value[1].issues[i]
              IN  /\ issue.severity # "critical"
                  /\ issue.severity = "high" =>
                        /\ issue.issue_type \in DOMAIN HighRules
                        /\ TagOrNone(call.elements[1])
                              \in HighRules[issue.issue_type]

\* a heading with issues of its own passes
C25_Witness ==
    /\ ElementReturned
    /\ TagOrNone(call.elements[1]) = S_h1
    /\ HasIssue(outcome.value[1], "empty_heading")
    /\ HasIssue(outcome.value[1], "empty_aria_attribute")
    /\ outcome.value[1].passed

\* the results summarised are those a validation returned
SummaryOfValidation ==
    SummaryDone /\ kept.set /\ call.results = kept.results

\* C26: in the summary of the results of a validation, failed_elements is
\* the number of results that hold an issue of severity critical or high,
\* it is at most critical_issues + high_issues, and it is 0 exactly when
\* critical_issues + high_issues is 0.
C26_FailedElementsFollowPassRule ==
    SummaryOfValidation =>
        LET s == outcome.value[1]
        IN  /\ s.failed_elements =
                   Cardinality({k \in 1..Len(call.results) :
                       \E i \in 1..Len(call.results[k].issues) :
                           Failing(call.results[k].issues[i])})
            /\ s.failed_elements <= s.critical_issues + s.high_issues
            /\ s.failed_elements = 0
                   <=> s.critical_issues + s.high_issues = 0

\* the summary of a page of which one record failed and one passed with
\* issues
C26_Witness ==
    /\ SummaryOfValidation
    /\ kept.checks.none
    /\ Len(kept.elements) >= 2
    /\ outcome.value[1].failed_elements > 0
    /\ outcome.value[1].passed_elements > 0
    /\ outcome.value[1].total_issues > outcome.value[1].high_issues

----------------------------------------------------------------------------
(* The manual workflow *)

\* C27: validate_rule on a registered rule id appends to results exactly
\* one entry, with that rule id and status, and returns it; validate_rule
\* on an id that is not registered raises and leaves results as they were;
\* and get_pending_validations returns the registered rule ids, in order,
\* for which results holds no entry.
C27_ValidateRuleRecordsResult ==
    [][/\ (pc = "called" /\ call.op = "validate_rule") =>
            LET before == ui_validator.results
                after == ui_validator'.results
            IN  IF HasRule(ui_validator.rules, call.rule_id)
                THEN /\ ~outcome'.raised
                     /\ Len(after) = Len(before) + 1
                     /\ SubSeq(after, 1, Len(before)) = before
                     /\ after[Len(after)].rule_id = call.rule_id
                     /\ after[Len(after)].status = call.status
                     /\ outcome'.value = <<after[Len(after)]>>
                ELSE /\ outcome'.raised
                     /\ after = before
       /\ (pc = "called" /\ call.op = "get_pending_validations") =>
            /\ ~outcome'.raised
            /\ outcome'.value =
                  SelectSeq([i \in 1..Len(ui_validator.rules) |->
                                ui_validator.rules[i][1]],
                            LAMBDA id :
                                \A k \in 1..Len(ui_validator.results) :
                                    ui_validator.results[k].rule_id # id)]_vars

====
